---- MODULE Spec2Model ----
(***************************************************************************)
(* Model of the rustika TikaClient (src/src/client.rs, src/src/lib.rs):    *)
(* the client's configuration and endpoint, the handle to the spawned tika *)
(* server, the child processes the client has spawned, and the operations  *)
(* start_server, restart_server, stop_server, is_server_live and Drop.     *)
(* Construction (the builder constructors, TikaMode::default and build) is *)
(* the initial predicate; the requests sent through `&self` have a         *)
(* specification of their own, SpecReq.                                    *)
(*                                                                         *)
(* start_server blocks on the child's stderr, so it is modelled in steps:  *)
(* the call up to the spawn, then one step per iteration of the            *)
(* `for line in reader.lines()` loop.  The caller holds `&mut self`, so no *)
(* other operation of the client runs while pc = "scan".                   *)
(***************************************************************************)
EXTENDS Integers, Sequences, FiniteSets, Bags, TLC

\* ---------------------------------------------------------------- bounds
\* number of child processes spawned in one behaviour
MaxChildren == 2
\* number of unread items the child's stderr pipe holds
PipeCap == 2

\* ------------------------------------------------------------ text values
\* client.rs:64, the literal given to `line.starts_with(..)`
BANNER ==
  <<"I","N","F","O"," "," ","S","t","a","r","t","e","d"," ","A","p","a","c","h","e"," ","T","i","k","a"," ","s","e","r","v","e","r"," ","a","t">>

\* Lines a child may write to its stderr.
\*  1: the log line Tika writes once it is listening
\*  2: the same message behind a timestamp
\*  3: an earlier log line of the boot
LogLines == <<
  <<"I","N","F","O"," "," ","S","t","a","r","t","e","d"," ","A","p","a","c","h","e"," ","T","i","k","a"," ","s","e","r","v","e","r"," ","a","t"," ","h","t","t","p",":","/","/","1","2","7",".","0",".","0",".","1",":","9","9","9","8","/">>,
  <<"J","a","n"," ","0","1"," ","I","N","F","O"," "," ","S","t","a","r","t","e","d"," ","A","p","a","c","h","e"," ","T","i","k","a"," ","s","e","r","v","e","r"," ","a","t"," ","h","t","t","p",":","/","/","1","2","7",".","0",".","0",".","1",":","9","9","9","8","/">>,
  <<"I","N","F","O"," "," ","S","t","a","r","t","i","n","g"," ","A","p","a","c","h","e"," ","T","i","k","a"," ","1",".","2","0"," ","s","e","r","v","e","r">> >>

\* An item read from the stderr pipe: 0 is an io::Error returned by
\* `lines()` (a read error or bytes that are not UTF-8), i > 0 is LogLines[i].
IoErr == 0
Items == 0..Len(LogLines)

\* str::starts_with as used at client.rs:64
starts_with(s, p) ==
  /\ Len(p) <= Len(s)
  /\ SubSeq(s, 1, Len(p)) = p

\* client.rs:64, the test that ends the readiness scan
is_started_line(line) == starts_with(line, BANNER)

\* ------------------------------------------------------------ TikaMode
ClientServer(addr) == [tag |-> "ClientServer", val |-> addr]
ClientOnly(url) == [tag |-> "ClientOnly", val |-> url]

\* std::net::SocketAddr, and its Display as used by format!("http://{}", addr)
SocketAddr(ip, port) == [ip |-> ip, port |-> port]
addr_to_string(a) == a.ip \o ":" \o ToString(a.port)

\* reqwest::Url: scheme, host, explicit port (-1: none) and path.  The path
\* is held as its segments, the texts that follow each "/": "/" is <<"">>,
\* "/tika" is <<"tika">>, "/tika/" is <<"tika", "">>; <<>> is no path.
Url(scheme, host, port, path) ==
  [scheme |-> scheme, host |-> host, port |-> port, path |-> path]

\* Url::path
RECURSIVE path_str(_)
path_str(segs) ==
  IF segs = <<>> THEN "" ELSE "/" \o Head(segs) \o path_str(Tail(segs))

\* the path "/" Url::parse gives an http url written without a path
RootPath == <<"">>

\* Url::as_str
url_as_str(u) ==
  u.scheme \o "://" \o u.host
    \o (IF u.port = -1 THEN "" ELSE ":" \o ToString(u.port))
    \o path_str(u.path)

\* the port Url::parse leaves implicit for a scheme
default_port(scheme) ==
  CASE scheme = "http" -> 80 [] scheme = "https" -> 443 [] OTHER -> -1

\* lib.rs:37, Url::parse(&format!("http://{}", addr)): the text
\* "http://<ip>:<port>" parses to scheme http, host <ip>, the port unless it
\* is the default of the scheme, and the path "/" of an empty path
parse_http_addr(addr) ==
  Url("http", addr.ip,
      IF addr.port = default_port("http") THEN -1 ELSE addr.port, RootPath)

\* socket addresses a server can be bound to, and urls of remote servers
Addrs == {SocketAddr("127.0.0.1", 9998), SocketAddr("127.0.0.1", 80)}
Urls == {Url("http", "localhost", 9998, RootPath),
         Url("http", "localhost", 9998, <<"tika">>)}
\* a url that is no server of a client, and the urls Url::parse is given
OtherUrl == Url("http", "other.invalid", 1, <<"x">>)
KnownUrls == Urls \cup {OtherUrl}
\* lib.rs:56-59, the address TikaMode::default() binds
DefaultAddr == SocketAddr("127.0.0.1", 9998)
\* Option<SocketAddr>::None, the argument of restart_server(None)
NoAddr == SocketAddr("", 0)

\* server_endpoint_of as the text "http://<addr>" taken for a Url as it stands
server_endpoint_unparsed(mode) ==
  IF mode.tag = "ClientServer"
    THEN Url("http", mode.val.ip, mode.val.port, <<>>)
    ELSE mode.val

\* lib.rs:35-40 with the Url of ClientOnly cloned
server_endpoint_of(mode) ==
  IF mode.tag = "ClientServer" THEN parse_http_addr(mode.val) ELSE mode.val

\* restart_server with the address taken as the url of a running server
readdress_as_remote(mode, endpoint, addr) ==
  IF addr = NoAddr
    THEN [mode |-> mode, endpoint |-> endpoint]
    ELSE [mode |-> ClientOnly(parse_http_addr(addr)),
          endpoint |-> parse_http_addr(addr)]

\* restart_server with line 89 left out
readdress_keeps_endpoint(mode, endpoint, addr) ==
  IF addr = NoAddr
    THEN [mode |-> mode, endpoint |-> endpoint]
    ELSE [mode |-> ClientServer(addr), endpoint |-> endpoint]

\* restart_server with lines 87-90 left out
readdress_ignored(mode, endpoint, addr) ==
  [mode |-> mode, endpoint |-> endpoint]

\* client.rs:87-90, restart_server: mode and endpoint for the new address
readdress(mode, endpoint, addr) ==
  IF addr = NoAddr
    THEN [mode |-> mode, endpoint |-> endpoint]
    ELSE [mode |-> ClientServer(addr),
          endpoint |-> server_endpoint_of(ClientServer(addr))]

\* client.rs:43, `if let TikaMode::ClientServer(addr) = self.config.tika_mode`
is_client_server(mode) == mode.tag = "ClientServer"

\* ------------------------------------------------- TikaServerFileLocation
File(kind, path) == [tag |-> "File", kind |-> kind, path |-> path]
Remote(url) == [tag |-> "Remote", kind |-> "none", path |-> url]

\* An environment variable as env::var sees it: unset, set to a text, or
\* set to bytes that are not unicode; env::var is Ok for a text only.
NoVar == [set |-> FALSE, unicode |-> TRUE, text |-> ""]
Var(text) == [set |-> TRUE, unicode |-> TRUE, text |-> text]
NotUnicodeVar == [set |-> TRUE, unicode |-> FALSE, text |-> ""]
var_ok(v) == v.set /\ v.unicode

\* the values of TIKA_VERSION
VersionVars == {NoVar, Var("1.19"), NotUnicodeVar}

\* client.rs:535-537, TikaConfig::default_version in an environment whose
\* TIKA_VERSION is `v`
default_version(v) == IF var_ok(v) THEN v.text ELSE "1.20"

\* client.rs:549-551
remote_server_jar(version) ==
  "http://search.maven.org/remotecontent?filepath=org/apache/tika/tika-server/"
    \o version \o "/tika-server-" \o version \o ".jar"

\* The environment read at build time: TIKA_SERVER_JAR is unset, set to a
\* path, or set to bytes that are not unicode; `tika-rest-server` is on PATH
\* or is not.
Envs == [jar : {"unset", "set", "not_unicode"}, exe : BOOLEAN]
EnvJarPath == "/opt/tika/tika-server-1.20.jar"
ExePath == "/usr/local/bin/tika-rest-server"

\* from_env with the probe of PATH before the read of TIKA_SERVER_JAR
from_env_path_first(env) ==
  CASE env.jar = "not_unicode" -> [res |-> "panic", file |-> Remote("")]
    [] env.exe -> [res |-> "Ok", file |-> File("PathExecutable", ExePath)]
    [] env.jar = "set" -> [res |-> "Ok", file |-> File("EnvVarJar", EnvJarPath)]
    [] OTHER -> [res |-> "Config", file |-> Remote("")]

\* client.rs:609-626; "panic" is the `Err(()).expect(..)` of line 612
from_env(env) ==
  CASE env.jar = "set" -> [res |-> "Ok", file |-> File("EnvVarJar", EnvJarPath)]
    [] env.jar = "not_unicode" -> [res |-> "panic", file |-> Remote("")]
    [] OTHER ->
         IF env.exe
           THEN [res |-> "Ok", file |-> File("PathExecutable", ExePath)]
           ELSE [res |-> "Config", file |-> Remote("")]

\* client.rs:579-589, impl Default for TikaServerFileLocation
default_location(env, v) ==
  LET r == from_env(env)
  IN  CASE r.res = "Ok" -> [res |-> "Ok", loc |-> r.file]
        [] r.res = "panic" -> [res |-> "panic", loc |-> Remote("")]
        [] OTHER -> [res |-> "Ok", loc |-> Remote(remote_server_jar(default_version(v)))]

\* client.rs:483 and 126, temp dir joined with the fixed file name
download_path == "/tmp/tika-server.jar"

\* -------------------------------------------------------------- state
VARIABLES
  tika_mode,         \* config.tika_mode
  server_endpoint,   \* TikaClient.server_endpoint
  server_handle,     \* TikaClient.server_handle : Option<Child>
  tika_server_file,  \* config.tika_server_file
  server_verbosity,  \* config.server_verbosity
  children,          \* the processes spawned so far, by id 1..Len(children)
  pc,                \* "idle", "scan" (inside start_server), "dropped", "panicked", "aborted", "unbuilt" (no client)
  handle,            \* start_server's local `handle`: id of the child being scanned, 0 if none
  pipe,              \* stderr of that child: unread items and whether the write end is closed
  os_env,            \* the process environment build read: TIKA_SERVER_JAR and PATH
  tika_version,      \* config.tika_version
  tika_translator,   \* config.tika_translator
  jar_file,          \* the file tika-server.jar in config.tika_path
  last,              \* the call in progress or last returned, and what it did
  inflight,          \* the bag of requests sent and not yet answered, one per thread inside a request
  reply              \* the request that returned last, and its result

vars == <<tika_mode, server_endpoint, server_handle, tika_server_file,
          server_verbosity, children, pc, handle, pipe, os_env,
          tika_version, tika_translator, jar_file, last, inflight, reply>>

\* what the requests of client.rs:156-355 read and write on the wire
net == <<inflight, reply>>

\* what no operation of the client assigns after build
fixed == <<server_verbosity, os_env, tika_version, tika_translator>>

None == [some |-> FALSE, child |-> 0, stderr |-> FALSE, stdout |-> FALSE]
Some(c, err, out) == [some |-> TRUE, child |-> c, stderr |-> err, stdout |-> out]

NoPipe == [buf |-> <<>>, closed |-> TRUE]

\* ------------------------------------------------------- construction
\* the texts given to TikaBuilder::with_server and TikaBuilder::client_only,
\* or found in TIKA_SERVER_ENDPOINT
AddrTexts == {"127.0.0.1:9998", "localhost"}
UrlTexts == {"http://localhost:9998", "http://localhost:9998/tika", "not a url"}

\* lib.rs:31, str::parse::<SocketAddr>: the text of an address parses to
\* that address, any other text is an AddrParseError
parse_socket_addr(text) ==
  IF \E a \in Addrs : addr_to_string(a) = text
    THEN [res |-> "Ok", addr |-> CHOOSE a \in Addrs : addr_to_string(a) = text]
    ELSE [res |-> "Err", addr |-> NoAddr]

\* the Url of a result that holds none
NoUrl == Url("", "", -1, <<>>)

\* the texts Url::parse turns into url u: its serialisation, and that
\* without the root path
url_texts(u) ==
  {url_as_str(u)} \cup
    (IF u.path = RootPath THEN {url_as_str([u EXCEPT !.path = <<>>])} ELSE {})

\* lib.rs:44 and 52, Url::parse (also behind IntoUrl for a text)
parse_url(text) ==
  IF \E u \in KnownUrls : text \in url_texts(u)
    THEN [res |-> "Ok", url |-> CHOOSE u \in KnownUrls : text \in url_texts(u)]
    ELSE [res |-> "Err", url |-> NoUrl]

\* the mode of a constructor that returned none
NoMode == [tag |-> "none", val |-> NoUrl]

\* lib.rs:30-32, TikaMode::client_server: `?` turns the AddrParseError into
\* ErrorKind::Addr (error.rs:100-104)
client_server(text) ==
  LET p == parse_socket_addr(text)
  IN  IF p.res = "Ok"
        THEN [res |-> "Ok", mode |-> ClientServer(p.addr)]
        ELSE [res |-> "Addr", mode |-> NoMode]

\* lib.rs:43-45, TikaMode::client_only: into_url returns a reqwest::Error,
\* which `?` turns into ErrorKind::ReqWest (error.rs:88-92)
client_only(text) ==
  LET p == parse_url(text)
  IN  IF p.res = "Ok"
        THEN [res |-> "Ok", mode |-> ClientOnly(p.url)]
        ELSE [res |-> "ReqWest", mode |-> NoMode]

\* lib.rs:48-62, impl Default for TikaMode in an environment whose
\* TIKA_SERVER_ENDPOINT is `endpoint`: "panic" is the unwrap_or_else of
\* line 53
default_mode(endpoint) ==
  IF var_ok(endpoint)
    THEN LET p == parse_url(endpoint.text)
         IN  IF p.res = "Ok"
               THEN [res |-> "Ok", mode |-> ClientOnly(p.url)]
               ELSE [res |-> "panic", mode |-> NoMode]
    ELSE [res |-> "Ok", mode |-> ClientServer(DefaultAddr)]

\* How a builder came to its mode: the constructor, the text given to it,
\* and TIKA_SERVER_ENDPOINT, which TikaBuilder::default() reads.
Source(via, text, endpoint) == [via |-> via, text |-> text, endpoint |-> endpoint]
Sources ==
  {Source("with_server", t, NoVar) : t \in AddrTexts}
    \cup {Source("client_only", t, NoVar) : t \in UrlTexts}
    \cup {Source("default", "", e) :
            e \in {NoVar, NotUnicodeVar} \cup {Var(t) : t \in UrlTexts}}

\* client.rs:423-430 and the derived Default of TikaBuilder
mode_of(src) ==
  CASE src.via = "with_server" -> client_server(src.text)
    [] src.via = "client_only" -> client_only(src.text)
    [] OTHER -> default_mode(src.endpoint)

\* the server files a builder is given with TikaBuilder::server_file;
\* NoLocation leaves it unset
NoLocation == [tag |-> "none", kind |-> "none", path |-> ""]
CustomJar == File("EnvVarJar", "/srv/tika/tika-server-custom.jar")
BuilderFiles == {NoLocation, CustomJar}

\* client.rs:481, the server file TikaBuilder::build gives the client of a
\* builder whose tika_server_file is `file`
build_location(file, env, v) == default_location(env, v)

\* what a call record tells of the builder: nothing, but for construction
NoBuilder == [source |-> Source("none", "", NoVar), file |-> NoLocation,
              version_var |-> NoVar]

\* A record of one call: the operation, its result ("pending" while
\* start_server scans), whether it issued the
\* download request, the child it spawned (0: none), how the readiness scan
\* ended ("none", "banner", "eof", "ioerr"), the item that ended the scan
\* (-1: none), the items left unread in the pipe when it returned and the
\* items lost with the BufReader.
Call(op, res, download, spawned, scan, item, unread) ==
  [op |-> op, res |-> res, download |-> download,
   spawned |-> spawned, scan |-> scan, item |-> item, unread |-> unread,
   lost |-> 0, dl |-> "none", requests |-> 0, written |-> 0,
   builder |-> NoBuilder]

\* The call record of a start_server that went through download_server_jar:
\* how the download went, the GET requests sent and the bytes
\* std::io::copy reported (line 130).
WithDownload(call, d) ==
  [call EXCEPT !.dl = d.dl, !.requests = d.requests, !.written = d.written]

\* a file of the storage directory: whether it exists, and its bytes
NoFile == [exists |-> FALSE, bytes |-> <<>>]
FileOf(bytes) == [exists |-> TRUE, bytes |-> bytes]

\* The versions a builder is given: "none" leaves TikaBuilder::version unset.
BuilderVersions == {"none", "1.19"}

\* What the download endpoint serves for a url: the jar of that version.
jar_at(url) ==
  CASE url = remote_server_jar("1.20") -> <<80, 75, 3, 4>>
    [] url = remote_server_jar("1.19") -> <<80, 75, 5>>
    [] OTHER -> <<>>

\* ------------------------------------------------------------ requests
\* number of threads that share the client by `&self`; each has at most
\* one request in flight
MaxThreads == 2

\* web/translate.rs:124-130, Translator; NoTranslator is the None of the
\* builder
Lingo24 == [tag |-> "Lingo24", name |-> ""]
Google == [tag |-> "Google", name |-> ""]
Other(name) == [tag |-> "Other", name |-> name]
NoTranslator == [tag |-> "none", name |-> ""]

\* web/translate.rs:141-148, Translator::as_str
translator_as_str(t) ==
  CASE t.tag = "Lingo24" -> "org.apache.tika.language.translate.Lingo24Translator"
    [] t.tag = "Google" -> "org.apache.tika.language.translate.GoogleTranslator"
    [] t.tag = "Yandex" -> "org.apache.tika.language.translate.YandexTranslator"
    [] OTHER -> t.name

\* the values of TIKA_TRANSLATOR, and the translators given to a builder
TranslatorVars == {NoVar, Var("my.Translator")}
BuilderTranslators == {NoTranslator, Google}

\* client.rs:541-545, TikaConfig::default_translator in an environment
\* whose TIKA_TRANSLATOR is `v`
default_translator(v) == IF var_ok(v) THEN Other(v.text) ELSE Lingo24

\* A text handed to Url::join, as the url crate reads it: a relative path
\* by its "/"-separated pieces, a path from the root (a leading "/") by the
\* pieces after it, or a text with a scheme.
RelPath(segs) == [kind |-> "relative", segs |-> segs, text |-> ""]
RootedPath(segs) == [kind |-> "rooted", segs |-> segs, text |-> ""]
UrlRef(text) == [kind |-> "url", segs |-> <<>>, text |-> text]
NoRef == [kind |-> "none", segs |-> <<>>, text |-> ""]

\* web/config.rs:18-25, Config::path
config_path(c) ==
  CASE c = "MimeTypes" -> RelPath(<<"mime-types">>)
    [] c = "Detectors" -> RelPath(<<"detectors">>)
    [] c = "Parsers" -> RelPath(<<"parsers">>)
    [] OTHER -> RelPath(<<"parsers", "details">>)

\* the paths get_json is called with: those of detectors, parsers,
\* parsers_details and mime_types, and texts of a caller of the public
\* get_json: "/detectors", "http://other.invalid:1/x" and "http://"
JsonPaths ==
  {config_path(c) : c \in {"MimeTypes", "Detectors", "Parsers", "ParsersDetails"}}
    \cup {RootedPath(<<"detectors">>), UrlRef(url_as_str(OtherUrl)), UrlRef("http://")}

\* Option<Language>::None, and the languages of a translation
NoLang == ""
SrcLang == "de"
DestLang == "en"

\* A call of an operation that sends one request, with its arguments: the
\* path of get_json, the source language and the translator of a
\* translation, the url of the Request given to `request`.
ReqCall(op, path, src, translator, url) ==
  [op |-> op, path |-> path, src |-> src, translator |-> translator, url |-> url]

\* the translators given to translate_with_translator and
\* translate_with_translator_auto
GivenTranslators == {Lingo24, Google}

ReqCalls ==
  {ReqCall("get_json", p, NoLang, NoTranslator, NoUrl) : p \in JsonPaths}
    \cup {ReqCall("translate_with_translator", NoRef, SrcLang, t, NoUrl) :
            t \in GivenTranslators}
    \cup {ReqCall("translate_with_translator_auto", NoRef, NoLang, t, NoUrl) :
            t \in GivenTranslators}
    \cup {ReqCall("translate_auto", NoRef, NoLang, NoTranslator, NoUrl),
          ReqCall("translate", NoRef, SrcLang, NoTranslator, NoUrl),
          ReqCall("detect_mime", NoRef, NoLang, NoTranslator, NoUrl),
          ReqCall("detect_language", NoRef, NoLang, NoTranslator, NoUrl),
          ReqCall("request", NoRef, NoLang, NoTranslator, OtherUrl)}

ReqOps == {c.op : c \in ReqCalls}

\* client.rs:283-288, the path put_translate formats
put_translate_path(src, dest, translator) ==
  RelPath(<<"translate", "all", translator_as_str(translator)>>
            \o (IF src = NoLang THEN <<>> ELSE <<src>>) \o <<dest>>)

\* the path each call joins to the endpoint: client.rs:169-172, 227-275
\* (the translator of the config unless one is given, the source language
\* unless it is detected), 319 and 343
request_path(call, config_translator) ==
  CASE call.op = "get_json" -> call.path
    [] call.op \in {"translate_auto", "translate"} ->
         put_translate_path(call.src, DestLang, config_translator)
    [] call.op \in {"translate_with_translator", "translate_with_translator_auto"} ->
         put_translate_path(call.src, DestLang, call.translator)
    [] call.op = "detect_mime" -> RelPath(<<"detect", "stream">>)
    [] OTHER -> RelPath(<<"language", "stream">>)

\* Url::join of a relative path: the path replaces the last segment of the
\* path of the base, what follows its last "/"
url_dir(path) ==
  IF path = <<>> THEN <<>> ELSE SubSeq(path, 1, Len(path) - 1)

\* client.rs:158-160, TikaClient::endpoint_url: Url::join resolves the text
\* against the endpoint.  A relative path is put after the last "/" of the
\* path of the endpoint, a path from the root replaces the path, a text with
\* a scheme is parsed for itself and its url replaces the endpoint; a text
\* that fails to parse is the UrlError of line 159.
endpoint_url(endpoint, ref) ==
  CASE ref.kind = "relative" ->
         [res |-> "Ok",
          url |-> IF ref.segs = <<>>
                    THEN endpoint
                    ELSE [endpoint EXCEPT !.path = url_dir(@) \o ref.segs]]
    [] ref.kind = "rooted" ->
         [res |-> "Ok", url |-> [endpoint EXCEPT !.path = ref.segs]]
    [] OTHER ->
         LET p == parse_url(ref.text)
         IN  IF p.res = "Ok"
               THEN [res |-> "Ok", url |-> p.url]
               ELSE [res |-> "Url", url |-> NoUrl]

\* the method and the Accept header of the request of an operation:
\* client.rs:171-173, 290-293, 317-320, 341-344
request_method(op) == IF op \in {"get_json", "request"} THEN "GET" ELSE "PUT"
request_accept(op) ==
  CASE op = "get_json" -> "application/json"
    [] op = "request" -> ""
    [] OTHER -> "text/plain"

\* the Request a call sends: the one it is given (client.rs:163-165) or the
\* one it builds for the url of its path
request_of(call, endpoint, config_translator) ==
  LET u == IF call.op = "request"
             THEN [res |-> "Ok", url |-> call.url]
             ELSE endpoint_url(endpoint, request_path(call, config_translator))
  IN  [res |-> u.res,
       req |-> [op |-> call.op, method |-> request_method(call.op),
                accept |-> request_accept(call.op), url |-> u.url]]

\* What a request meets: `send()` fails, reading the body as text fails,
\* or the server answers with a body.
Response(kind, text) == [kind |-> kind, text |-> text]
Responses ==
  {Response("send_err", ""), Response("text_err", ""),
   Response("body", ""), Response("body", "en")}

Result(res, value) == [res |-> res, value |-> value]

\* client.rs:169-175, get_json: the response itself is returned
get_json_result(r) ==
  IF r.kind = "send_err" THEN Result("ReqWest", "") ELSE Result("Ok", "response")

\* client.rs:290-296 and 317-323: `send()?` then `resp.text()?`
text_result(r) ==
  IF r.kind \in {"send_err", "text_err"}
    THEN Result("ReqWest", "")
    ELSE Result("Ok", r.text)

\* detect_language without the test of line 347
detect_language_result_unchecked(r) == text_result(r)

\* client.rs:340-355, detect_language
detect_language_result(r) ==
  LET lang == text_result(r)
  IN  IF lang.res # "Ok"
        THEN lang
        ELSE IF lang.value = ""
               THEN Result("Server", "")
               ELSE Result("Ok", lang.value)

request_result(op, r) ==
  CASE op \in {"get_json", "request"} -> get_json_result(r)
    [] op = "detect_language" -> detect_language_result(r)
    [] OTHER -> text_result(r)

NoReply == [op |-> "none", response |-> Response("none", ""),
            result |-> Result("none", "")]

\* client.rs:393-402 and 478-497, the constructor `src` of a builder, the
\* settings `file`, `verbosity` and `version`, and TikaBuilder::build, in
\* an environment with `env` and TIKA_VERSION `v`.  The constructor fails
\* when the mode does, and panics in TikaServerFileLocation::default()
\* (line 398) when from_env does: there is no builder and no client then,
\* and the call record is that of the constructor.  The version of a
\* builder that sets none is default_version (line 479).
build(src, file, verbosity, env, version, v, translator, tr) ==
    LET m == mode_of(src)
        d == build_location(file, env, v)
        res == IF m.res # "Ok" THEN m.res ELSE d.res
    IN  /\ tika_mode = m.mode
        /\ server_endpoint = server_endpoint_of(m.mode)
        /\ server_handle = None
        /\ tika_server_file = d.loc
        /\ server_verbosity = verbosity
        /\ os_env = env
        /\ tika_version = IF version = "none" THEN default_version(v) ELSE version
        /\ tika_translator = IF translator = NoTranslator
                               THEN default_translator(tr)
                               ELSE translator
        /\ jar_file = NoFile
        /\ children = <<>>
        /\ pc = CASE res = "Ok" -> "idle"
                  [] res = "panic" -> "panicked"
                  [] OTHER -> "unbuilt"
        /\ handle = 0
        /\ pipe = NoPipe
        /\ last = [Call(IF res = "Ok" THEN "build" ELSE src.via, res,
                        FALSE, 0, "none", -1, 0)
                     EXCEPT !.builder = [source |-> src, file |-> file,
                                         version_var |-> v]]
        /\ inflight = EmptyBag
        /\ reply = NoReply

Init ==
  \E src \in Sources, file \in BuilderFiles,
     verbosity \in {"Silent", "Verbose"}, env \in Envs,
     version \in BuilderVersions, v \in VersionVars :
    build(src, file, verbosity, env, version, v, NoTranslator, NoVar)

\* A client whose requests are followed: made by with_server or
\* client_only from any text, with any translator and TIKA_TRANSLATOR, the
\* settings of the server left at their defaults in an environment that
\* names no server file.
ReqSources == {src \in Sources : src.via # "default"}
InitReq ==
  \E src \in ReqSources, translator \in BuilderTranslators, tr \in TranslatorVars :
    build(src, NoLocation, "Silent", [jar |-> "unset", exe |-> FALSE],
          "none", NoVar, translator, tr)

\* there is a client: construction returned one, or a call was made on it
HasClient == last.builder = NoBuilder \/ last.res = "Ok"

\* A call can be made on the client: no call is in progress, and the client
\* was not dropped.  A call that panicked leaves the client to its owner,
\* who drops it as the panic unwinds or goes on after catching the panic.
Callable ==
  \/ pc = "idle"
  \/ pc = "panicked" /\ HasClient /\ last.op # "drop"

\* ------------------------------------------------------------ helpers
\* What the environment does to one call: the outcome of the download
\* (below), whether `java` is on PATH, whether Command::spawn succeeds,
\* whether Child::kill succeeds.
\* The download succeeds, or `send()` fails, or File::create fails, or
\* io::copy fails: on a read of the response body, which comes from the
\* network as it is copied ("read_err"), or on a write to the file
\* ("write_err"), before a byte is written or, "_partial", after the first.
DownloadOutcomes ==
  {"ok", "send_err", "create_err",
   "read_err", "read_err_partial", "write_err", "write_err_partial"}

\* the outcomes in which io::copy (client.rs:130) returns an io::Error, and
\* the bytes of the body it has written by then
CopyErrors == {"read_err", "read_err_partial", "write_err", "write_err_partial"}
copied_before(dl) == IF dl \in {"read_err_partial", "write_err_partial"} THEN 1 ELSE 0

\* the result of a download: the error or Ok, the location and the file
\* afterwards, and what it did
Downloaded(res, loc, file, dl, requests, written) ==
  [res |-> res, loc |-> loc, file |-> file, dl |-> dl,
   requests |-> requests, written |-> written]

\* download_server_jar with a copy that stops one byte short
download_server_jar_short_copy(loc, dl) ==
  LET body == jar_at(remote_server_jar(tika_version))
  IN  CASE dl = "send_err" -> Downloaded("ReqWest", loc, jar_file, dl, 1, 0)
        [] dl = "create_err" -> Downloaded("IO", loc, jar_file, dl, 1, 0)
        [] dl \in CopyErrors ->
             Downloaded("IO", loc, FileOf(SubSeq(body, 1, copied_before(dl))),
                        dl, 1, copied_before(dl))
        [] OTHER ->
             Downloaded("Ok", File("Download", download_path),
                        FileOf(SubSeq(body, 1, Len(body) - 1)), "ok", 1,
                        Len(body) - 1)

\* client.rs:120-145, download_server_jar: one GET of the jar of
\* config.tika_version (lines 122-125), File::create of tika-server.jar,
\* which truncates it (128), the copy of the body (130); each returns early
\* on failure, the copy with the io::Error of the read or of the write,
\* which `?` turns into ErrorKind::IO (error.rs:106-110).  The location is
\* replaced at line 138 only.
download_server_jar(loc, dl) ==
  LET body == jar_at(remote_server_jar(tika_version))
  IN  CASE dl = "send_err" -> Downloaded("ReqWest", loc, jar_file, dl, 1, 0)
        [] dl = "create_err" -> Downloaded("IO", loc, jar_file, dl, 1, 0)
        [] dl \in CopyErrors ->
             Downloaded("IO", loc, FileOf(SubSeq(body, 1, copied_before(dl))),
                        dl, 1, copied_before(dl))
        [] OTHER ->
             Downloaded("Ok", File("Download", download_path), FileOf(body),
                        "ok", 1, Len(body))

\* client.rs:643-667, TikaServerFile::start_server: a jar needs `java`
\* (line 648 panics without it), then the command is spawned (line 666).
spawn_server(file, java, sp) ==
  CASE file.kind # "PathExecutable" /\ ~java -> "panic"
    [] ~sp -> "IO"
    [] OTHER -> "Ok"

\* start_server with the download of line 45 whatever the location is
launch_always_downloads(mode, loc, dl, java, sp) ==
  IF ~is_client_server(mode)
    THEN [res |-> "Config", loc |-> loc, download |-> FALSE,
          d |-> Downloaded("Ok", loc, jar_file, "none", 0, 0)]
    ELSE LET d == download_server_jar(loc, dl)
         IN  IF d.res # "Ok"
               THEN [res |-> d.res, loc |-> d.loc, download |-> TRUE, d |-> d]
               ELSE [res |-> spawn_server(d.loc, java, sp), loc |-> d.loc,
                     download |-> d.requests > 0, d |-> d]

\* start_server with the download ahead of the mode test of line 43
launch_downloads_first(mode, loc, dl, java, sp) ==
  LET d == IF loc.tag = "Remote"
             THEN download_server_jar(loc, dl)
             ELSE Downloaded("Ok", loc, jar_file, "none", 0, 0)
  IN  CASE d.res # "Ok" ->
             [res |-> d.res, loc |-> d.loc, download |-> TRUE, d |-> d]
        [] ~is_client_server(mode) ->
             [res |-> "Config", loc |-> d.loc, download |-> d.requests > 0, d |-> d]
        [] OTHER ->
             [res |-> spawn_server(d.loc, java, sp), loc |-> d.loc,
              download |-> d.requests > 0, d |-> d]

\* client.rs:43-49, start_server up to the spawn.  res is "Config", the
\* error of the download, "panic", "IO" or "Ok" (a child was spawned).
launch(mode, loc, dl, java, sp) ==
  IF ~is_client_server(mode)
    THEN [res |-> "Config", loc |-> loc, download |-> FALSE,
          d |-> Downloaded("Ok", loc, jar_file, "none", 0, 0)]
    ELSE LET d == IF loc.tag = "Remote"
                    THEN download_server_jar(loc, dl)
                    ELSE Downloaded("Ok", loc, jar_file, "none", 0, 0)
         IN  IF d.res # "Ok"
               THEN [res |-> d.res, loc |-> d.loc, download |-> TRUE, d |-> d]
               ELSE [res |-> spawn_server(d.loc, java, sp), loc |-> d.loc,
                     download |-> d.requests > 0, d |-> d]

\* client.rs:648, what which("java") finds
JavaPath == "/usr/bin/java"
\* client.rs:652, the class given to java
ServerClass == "org.apache.tika.server.TikaServerCli"

\* command_line with host and port in each other's place
command_line_port_first(file, addr) ==
  LET bind == <<"--host", ToString(addr.port), "--port", addr.ip>>
  IN  IF file.kind = "PathExecutable"
        THEN [program |-> file.path, args |-> bind]
        ELSE [program |-> JavaPath,
              args |-> <<"-cp", file.path, ServerClass>> \o bind]

\* client.rs:645-661, the Command built by TikaServerFile::start_server:
\* the executable itself, or java with the jar on the class path, and the
\* address as text (Ipv4Addr and u16 to_string)
command_line(file, addr) ==
  LET bind == <<"--host", addr.ip, "--port", ToString(addr.port)>>
  IN  IF file.kind = "PathExecutable"
        THEN [program |-> file.path, args |-> bind]
        ELSE [program |-> JavaPath,
              args |-> <<"-cp", file.path, ServerClass>> \o bind]

\* the process started by Command::spawn at client.rs:657-666
NewChild(mode, loc) ==
  [state |-> "running", addr |-> mode.val, kind |-> loc.kind, path |-> loc.path,
   cmd |-> command_line(loc, mode.val)]

\* std::process::Child::kill on the child a handle refers to: SIGKILL ends a
\* running process; the process is not waited for.
killed(kids, c) ==
  [kids EXCEPT ![c].state = IF @ = "running" THEN "killed" ELSE @]

\* client.rs:95-117, stop_server: the result and the processes afterwards.
\* The handle itself is not assigned by stop_server.
stop_outcome(h, kids, kill_ok) ==
  IF h.some
    THEN IF kill_ok
           THEN [res |-> "Ok", kids |-> killed(kids, h.child)]
           ELSE [res |-> "Server", kids |-> kids]
    ELSE [res |-> "Ok", kids |-> kids]

\* client.rs:69-75, the handle stored once the scan is over: with Verbose
\* the pipes are taken out of the handle first.
stored_handle(c, verbosity) ==
  Some(c, verbosity # "Verbose", verbosity # "Verbose")

\* ------------------------------------------------------------ actions
\* client.rs:43-56 on configuration `mode` with processes `kids`: the part
\* of start_server before the scan, shared by start_server and
\* restart_server.  The caller sets tika_mode and server_endpoint.
begin_start(op, mode, kids, dl, java, sp) ==
  LET l == launch(mode, tika_server_file, dl, java, sp)
      id == Len(kids) + 1
  IN  /\ l.res = "Ok" => Len(kids) < MaxChildren
      /\ tika_server_file' = l.loc
      /\ jar_file' = l.d.file
      /\ server_handle' = server_handle
      /\ IF l.res = "Ok"
           THEN /\ children' = Append(kids, NewChild(mode, l.loc))
                /\ handle' = id
                /\ pipe' = [buf |-> <<>>, closed |-> FALSE]
                /\ pc' = "scan"
                /\ last' = WithDownload(Call(op, "pending", l.download, id, "none", -1, 0), l.d)
           ELSE /\ children' = kids
                /\ handle' = 0
                /\ pipe' = NoPipe
                /\ pc' = IF l.res = "panic" THEN "panicked" ELSE "idle"
                /\ last' = WithDownload(Call(op, l.res, l.download, 0, "none", -1, 0), l.d)

\* The outcomes the environment can give a start_server on `mode` with
\* server file `loc`: a download happens for a Remote location only, `java`
\* is looked up for a jar only, neither in ClientOnly mode.
DownloadChoices(mode, loc) ==
  IF mode.tag = "ClientServer" /\ loc.tag = "Remote" THEN DownloadOutcomes ELSE {"ok"}
JavaChoices(mode, loc) ==
  IF mode.tag = "ClientServer" /\ loc.kind # "PathExecutable" THEN BOOLEAN ELSE {TRUE}
SpawnChoices(mode) ==
  IF mode.tag = "ClientServer" THEN BOOLEAN ELSE {TRUE}

\* client.rs:42-82, TikaClient::start_server, to the first read of stderr
start_server ==
  /\ Callable
  /\ \E dl \in DownloadChoices(tika_mode, tika_server_file),
        java \in JavaChoices(tika_mode, tika_server_file),
        sp \in SpawnChoices(tika_mode) :
       begin_start("start", tika_mode, children, dl, java, sp)
  /\ UNCHANGED <<tika_mode, server_endpoint, fixed, net>>

\* The child being started writes a line, or bytes `lines()` fails on, to
\* its stderr.
child_writes ==
  /\ pc = "scan"
  /\ ~pipe.closed
  /\ Len(pipe.buf) < PipeCap
  /\ \E item \in Items : pipe' = [pipe EXCEPT !.buf = Append(@, item)]
  /\ UNCHANGED <<tika_mode, server_endpoint, server_handle, tika_server_file, jar_file,
                 fixed, net, children, pc, handle, last>>

\* The child being started exits, which closes the write end of its stderr.
child_exits ==
  /\ pc = "scan"
  /\ ~pipe.closed
  /\ pipe' = [pipe EXCEPT !.closed = TRUE]
  /\ children' = [children EXCEPT ![handle].state = "exited"]
  /\ UNCHANGED <<tika_mode, server_endpoint, server_handle, tika_server_file, jar_file,
                 fixed, net, pc, handle, last>>

\* client.rs:69-76: the loop is over, the handle is stored, Ok is returned.
\* `lost` items were in the BufReader behind the one that ended the loop:
\* the reader is dropped with them.
finish_start(scan, item, lost) ==
  /\ server_handle' = stored_handle(handle, server_verbosity)
  /\ pc' = "idle"
  /\ handle' = 0
  /\ pipe' = NoPipe
  /\ last' = [last EXCEPT !.res = "Ok", !.scan = scan, !.item = item,
                          !.lost = lost]

\* client.rs:59-66, the first item of a buffer that ends the loop: one
\* `lines()` fails on (line 60) or a line that passes the test of line 64;
\* 0 when the loop passes over the whole buffer
\* the items that end the loop of client.rs:59-67: the error of `line?`
\* (line 60) and the lines that pass the test of line 64
ScanEnds == {IoErr} \cup {i \in 1..Len(LogLines) : is_started_line(LogLines[i])}

\* the place in `buf` of the first item at which the loop ends, 0 if none
scan_end(buf) ==
  LET ends == {k \in 1..Len(buf) : buf[k] \in ScanEnds}
  IN  IF ends = {} THEN 0 ELSE CHOOSE k \in ends : \A j \in ends : k <= j

\* client.rs:56-76, one read of the BufReader of line 56, which takes all
\* the pipe holds, the iterations of `for line in reader.lines()` over
\* what it took and, when the loop ends there, the rest of start_server.
\* The read blocks while the pipe is empty and open.
read_line ==
  /\ pc = "scan"
  /\ UNCHANGED <<tika_mode, server_endpoint, tika_server_file, jar_file,
                 fixed, net, children>>
  /\ IF pipe.buf = <<>>
       THEN /\ pipe.closed
            /\ finish_start("eof", -1, 0)
       ELSE LET k == scan_end(pipe.buf)
            IN  CASE k = 0 ->
                       /\ pipe' = [pipe EXCEPT !.buf = <<>>]
                       /\ UNCHANGED <<server_handle, pc, handle, last>>
                  [] pipe.buf[k] = IoErr ->
                       \* line 60, `line?`: the local handle is dropped, the
                       \* process it refers to is neither killed nor waited for
                       /\ server_handle' = server_handle
                       /\ pc' = "idle"
                       /\ handle' = 0
                       /\ pipe' = NoPipe
                       /\ last' = [last EXCEPT !.res = "IO", !.scan = "ioerr",
                                               !.item = pipe.buf[k],
                                               !.lost = Len(pipe.buf) - k]
                  [] OTHER ->
                       finish_start("banner", pipe.buf[k], Len(pipe.buf) - k)

\* Child::kill is called only when there is a handle
KillChoices(h) == IF h.some THEN BOOLEAN ELSE {TRUE}

\* client.rs:95-117, TikaClient::stop_server
stop_server ==
  /\ Callable
  /\ \E kill_ok \in KillChoices(server_handle) :
       LET s == stop_outcome(server_handle, children, kill_ok)
       IN  /\ children' = s.kids
           /\ last' = Call("stop", s.res, FALSE, 0, "none", -1, 0)
  /\ pc' = "idle"
  /\ UNCHANGED <<tika_mode, server_endpoint, server_handle, tika_server_file, jar_file,
                 fixed, net, handle, pipe>>

\* restart_server with the address taken over before the stop
restart_server_readdresses_first(addr) ==
  /\ Callable
  /\ \E kill_ok \in KillChoices(server_handle) :
       LET s == stop_outcome(server_handle, children, kill_ok)
           r == readdress(tika_mode, server_endpoint, addr)
       IN  /\ tika_mode' = r.mode
           /\ server_endpoint' = r.endpoint
           /\ IF s.res # "Ok"
                THEN /\ children' = s.kids
                     /\ last' = Call("restart", s.res, FALSE, 0, "none", -1, 0)
                     /\ pc' = "idle"
                     /\ UNCHANGED <<server_handle, tika_server_file, jar_file,
                                    handle, pipe>>
                ELSE \E dl \in DownloadChoices(r.mode, tika_server_file),
                        java \in JavaChoices(r.mode, tika_server_file),
                        sp \in SpawnChoices(r.mode) :
                       begin_start("restart", r.mode, s.kids, dl, java, sp)
  /\ UNCHANGED <<fixed, net>>

\* client.rs:85-92, TikaClient::restart_server(addr); NoAddr is None
restart_server_with(addr) ==
  /\ Callable
  /\ \E kill_ok \in KillChoices(server_handle) :
       LET s == stop_outcome(server_handle, children, kill_ok)
           r == readdress(tika_mode, server_endpoint, addr)
       IN  IF s.res # "Ok"
             THEN /\ children' = s.kids
                  /\ last' = Call("restart", s.res, FALSE, 0, "none", -1, 0)
                  /\ pc' = "idle"
                  /\ UNCHANGED <<tika_mode, server_endpoint, server_handle,
                                 tika_server_file, jar_file, handle, pipe>>
             ELSE /\ tika_mode' = r.mode
                  /\ server_endpoint' = r.endpoint
                  /\ \E dl \in DownloadChoices(r.mode, tika_server_file),
                        java \in JavaChoices(r.mode, tika_server_file),
                        sp \in SpawnChoices(r.mode) :
                       begin_start("restart", r.mode, s.kids, dl, java, sp)
  /\ UNCHANGED <<fixed, net>>

restart_server == \E addr \in Addrs \cup {NoAddr} : restart_server_with(addr)

\* client.rs:152-154, TikaClient::is_server_live: `unimplemented!()`
is_server_live ==
  /\ Callable
  /\ pc' = "panicked"
  /\ last' = Call("is_server_live", "panic", FALSE, 0, "none", -1, 0)
  /\ UNCHANGED <<tika_mode, server_endpoint, server_handle, tika_server_file, jar_file,
                 fixed, net, children, handle, pipe>>

\* The client is dropped at the end of a scope of its owner, or while a
\* panic unwinds through that scope: the panic of a call of the client
\* that was not caught, or a panic of the owner itself.
Unwinding == BOOLEAN

\* client.rs:364-372, impl Drop for TikaClient: stop_server().expect(..).
\* The fields are dropped after it; dropping a Child does not kill it.  The
\* panic of `expect` aborts the process when the drop is part of an unwind
\* ("panic in a destructor during cleanup").
drop ==
  /\ Callable
  /\ \E kill_ok \in KillChoices(server_handle), unwinding \in Unwinding :
       LET s == stop_outcome(server_handle, children, kill_ok)
           res == CASE s.res = "Ok" -> "Ok"
                    [] unwinding -> "abort"
                    [] OTHER -> "panic"
       IN  /\ children' = s.kids
           /\ pc' = CASE res = "Ok" -> "dropped"
                      [] res = "abort" -> "aborted"
                      [] OTHER -> "panicked"
           /\ last' = Call("drop", res, FALSE, 0, "none", -1, 0)
  /\ UNCHANGED <<tika_mode, server_endpoint, server_handle, tika_server_file, jar_file,
                 fixed, net, handle, pipe>>

Next ==
  \/ start_server
  \/ child_writes
  \/ child_exits
  \/ read_line
  \/ stop_server
  \/ restart_server
  \/ is_server_live
  \/ drop

Spec == Init /\ [][Next]_vars

\* the readiness banner named by the specification of the readiness signal
StartupBanner ==
  <<"S","t","a","r","t","e","d"," ","A","p","a","c","h","e"," ","T","i","k","a"," ","s","e","r","v","e","r"," ","a","t">>

\* `p` occurs in `s`
contains(s, p) ==
  \E i \in 0..(Len(s) - Len(p)) : SubSeq(s, i + 1, i + Len(p)) = p

\* The child being started gives a sign of life: it writes a line that
\* carries the startup banner, or it exits.
child_signals ==
  \/ /\ child_writes
     /\ LET item == pipe'.buf[Len(pipe'.buf)]
        IN  item # IoErr /\ contains(LogLines[item], StartupBanner)
  \/ child_exits

\* The thread inside start_server keeps running, so a read that can return
\* does; the child is one that again and again gives a sign of life.
SpecFair == Spec /\ WF_vars(read_line) /\ SF_vars(child_signals)

\* ------------------------------------------------ requests through &self
\* the state of the client proper, which `&self` cannot assign
client_state == <<tika_mode, server_endpoint, server_handle, tika_server_file,
                  server_verbosity, children, pc, handle, pipe, os_env,
                  tika_version, tika_translator, jar_file, last>>

\* client.rs:163-175, 290-295, 317-322, 341-346: a thread that is in no
\* request makes `call`.  It builds the url from the endpoint and sends the
\* request, or returns the error of endpoint_url and sends none.
send_request(call) ==
  /\ Callable
  /\ BagCardinality(inflight) < MaxThreads
  /\ LET r == request_of(call, server_endpoint, tika_translator)
     IN  IF r.res = "Ok"
           THEN /\ inflight' = inflight (+) SetToBag({r.req})
                /\ UNCHANGED reply
           ELSE /\ reply' = [op |-> call.op, response |-> Response("none", ""),
                             result |-> Result(r.res, "")]
                /\ UNCHANGED inflight
  /\ UNCHANGED client_state

\* the request `req` in flight meets response r and the operation of its
\* thread returns
recv_response(req, r) ==
  /\ BagIn(req, inflight)
  /\ reply' = [op |-> req.op, response |-> r,
               result |-> request_result(req.op, r)]
  /\ inflight' = inflight (-) SetToBag({req})
  /\ UNCHANGED client_state

send ==
  \E call \in ReqCalls : send_request(call)

recv ==
  \E req \in BagToSet(inflight), r \in Responses : recv_response(req, r)

NextReq ==
  \/ send
  \/ recv

\* A built client shared by threads that only issue requests.
SpecReq == InitReq /\ [][NextReq]_vars

\* ================================================================ claims
carries_banner(item) == item # IoErr /\ contains(LogLines[item], StartupBanner)

Returned == pc # "scan"
Range(s) == {s[i] : i \in 1..Len(s)}
IsStart == last.op = "start"

\* C1: start_server on a ClientOnly client returns a Config error, issues no
\* download request, spawns no child, and leaves the handle, the mode, the
\* endpoint, the server file location and the spawned processes unchanged.
C1_StartOnClientOnlyIsConfigError ==
  [][(tika_mode.tag = "ClientOnly" /\ start_server) =>
       /\ last'.op = "start" /\ last'.res = "Config"
       /\ ~last'.download
       /\ last'.spawned = 0
       /\ pc' = "idle"
       /\ UNCHANGED <<server_handle, tika_mode, server_endpoint,
                      tika_server_file, children>>]_vars

\* C1 witness: start_server has returned the Config error on a ClientOnly
\* client.
C1_Witness ==
  /\ IsStart /\ last.res = "Config"
  /\ tika_mode.tag = "ClientOnly"
  /\ children = <<>>

\* C2: when the scan of start_server meets end-of-stream before a banner
\* line, start_server returns an error and the client holds no handle.
C2_EofBeforeBannerFails ==
  (IsStart /\ Returned /\ last.scan = "eof") =>
    (last.res \notin {"Ok", "pending"} /\ ~server_handle.some)

\* C3: a read that meets a line carrying the startup banner, with only
\* lines before it, ends the scan at the first such line: no later line is
\* taken from the stream, the spawned child becomes the client's handle and
\* the call returns Ok.
C3_BannerLineEndsScan ==
  [][(pc = "scan" /\ pipe.buf # <<>> /\ IoErr \notin Range(pipe.buf)
        /\ (\E k \in 1..Len(pipe.buf) : carries_banner(pipe.buf[k]))
        /\ read_line) =>
       /\ pc' = "idle"
       /\ last'.res = "Ok"
       /\ carries_banner(last'.item)
       /\ \A k \in 1..Len(pipe.buf) :
            carries_banner(pipe.buf[k]) =>
              \E j \in 1..k : pipe.buf[j] = last'.item
       /\ last'.lost = 0
       /\ server_handle'.some /\ server_handle'.child = handle]_vars

\* C4: stop_server leaves the client without a handle, a stop_server that
\* follows a stop_server returns Ok, and stop_server without a handle
\* returns Ok.
C4_StopIsIdempotent ==
  [][stop_server =>
       /\ ~server_handle'.some
       /\ last.op = "stop" => last'.res = "Ok"
       /\ ~server_handle.some => last'.res = "Ok"]_vars

\* C5: a stop_server that returned the Server error of a failed kill has
\* cleared the handle all the same.
C5_FailedStopClearsHandle ==
  (last.op = "stop" /\ last.res = "Server") => ~server_handle.some

\* C6: a client that holds a handle is in ClientServer mode.
C6_HandleOnlyInClientServer ==
  server_handle.some => tika_mode.tag = "ClientServer"

\* C6 witness: a restart_server that gave the client a new address has
\* stored the handle of the child it spawned.
C6_Witness ==
  /\ last.op = "restart" /\ last.res = "Ok"
  /\ server_handle.some /\ server_handle.child = last.spawned
  /\ tika_mode = ClientServer(SocketAddr("127.0.0.1", 80))

\* C7: is_server_live returns a boolean, true exactly when the client holds
\* a handle.
C7_IsServerLiveReflectsHandle ==
  last.op = "is_server_live" =>
    /\ last.res \in {"true", "false"}
    /\ (last.res = "true") <=> server_handle.some

\* C8: start_server on a client that already holds a handle spawns no
\* further child.
C8_StartOnlyFromNoProcess ==
  [][(start_server /\ server_handle.some) =>
       (last'.spawned = 0 /\ children' = children)]_vars

\* C9: dropping the client never panics, whatever stop_server returns.
C9_DropNeverPanics ==
  last.op = "drop" => (last.res # "panic" /\ pc # "panicked")

\* C10: a start_server that returned an error after it had spawned a child
\* has not left that child running.
C10_FailedStartLeavesNoChild ==
  (IsStart /\ Returned /\ last.res \notin {"Ok", "pending"} /\ last.spawned # 0) =>
    children[last.spawned].state # "running"

\* C11: the server file a client is built with is a function of the
\* environment alone: the jar TIKA_SERVER_JAR names whenever it is set and
\* unicode, whether or not tika-rest-server is on PATH; else that executable
\* when it is on PATH; else the Remote placeholder, and build succeeds.
C11_ResolutionPrecedence ==
  (last.op = "build" /\ os_env.jar # "not_unicode") =>
    /\ last.res = "Ok"
    /\ tika_server_file.tag =
         IF os_env.jar = "set" \/ os_env.exe THEN "File" ELSE "Remote"
    /\ tika_server_file.kind =
         CASE os_env.jar = "set" -> "EnvVarJar"
           [] os_env.exe -> "PathExecutable"
           [] OTHER -> "none"
    /\ os_env.jar = "set" => tika_server_file.path = EnvJarPath
    /\ (os_env.jar = "unset" /\ os_env.exe) => tika_server_file.path = ExePath

\* C11 witness: a client built with TIKA_SERVER_JAR set and tika-rest-server
\* on PATH as well.
C11_Witness ==
  /\ last.op = "build" /\ last.res = "Ok"
  /\ os_env.jar = "set" /\ os_env.exe
  /\ tika_server_file = File("EnvVarJar", EnvJarPath)

\* the text a builder was made from does not parse
malformed(src) ==
  \/ src.via = "with_server" /\ parse_socket_addr(src.text).res # "Ok"
  \/ src.via = "client_only" /\ parse_url(src.text).res # "Ok"
  \/ src.via = "default" /\ var_ok(src.endpoint)
       /\ parse_url(src.endpoint.text).res # "Ok"

\* C12: with TIKA_SERVER_JAR set to a value that is not unicode, building a
\* client from a text that parses returns a Config error to the caller.
C12_UndecodableIsConfigError ==
  (os_env.jar = "not_unicode" /\ last.builder # NoBuilder
     /\ ~malformed(last.builder.source)) =>
    (last.res = "Config" /\ pc # "panicked")

C14_EndpointFollowsMode ==
  server_endpoint = server_endpoint_of(tika_mode)

\* C14 witness: a restart_server that moved the client to another address
\* and then failed to download or to spawn.
C14_Witness ==
  /\ last.op = "restart" /\ last.res \in {"IO", "ReqWest"}
  /\ tika_mode = ClientServer(SocketAddr("127.0.0.1", 80))
  /\ server_endpoint = Url("http", "127.0.0.1", -1, RootPath)

\* C15: a child spawned by restart_server(addr) is launched on addr, or on
\* the address the client had when addr is None; mode and endpoint are those
\* of that address; the child of the handle the client held was killed
\* before.
C15_RestartStopsReaddressesStarts ==
  [][\A addr \in Addrs \cup {NoAddr} :
       (Callable /\ last'.op = "restart" /\ last'.spawned # 0
          /\ restart_server_with(addr)) =>
         LET target == IF addr = NoAddr THEN tika_mode.val ELSE addr
         IN  /\ children'[last'.spawned].addr = target
             /\ tika_mode' = ClientServer(target)
             /\ server_endpoint' = server_endpoint_of(ClientServer(target))
             /\ server_handle.some =>
                  children'[server_handle.child].state # "running"]_vars

\* C15 witness: restart_server has spawned a second child on another address
\* than the first, which it killed.
C15_Witness ==
  /\ last.op = "restart" /\ last.spawned = 2
  /\ children[1].state = "killed"
  /\ children[1].addr # children[2].addr
  /\ children[2].addr = tika_mode.val

\* the body the download endpoint serves for the version of the client
RemoteBody == jar_at(remote_server_jar(tika_version))

\* C16: a start_server that gets past the mode test sends the download
\* request exactly when the location is Remote; a call on a client whose
\* location is a File sends none and leaves the location as it is; the
\* location changes only from Remote to the downloaded file, with a
\* download that succeeded; a child spawned from a File location runs that
\* file.
C16_DownloadOnlyForPlaceholder ==
  [][/\ (Callable /\ tika_mode.tag = "ClientServer" /\ last'.op = "start"
           /\ start_server) =>
          (last'.download <=> tika_server_file.tag = "Remote")
     /\ (Callable /\ tika_server_file.tag = "File") =>
          /\ last'.requests = 0 /\ ~last'.download
          /\ last'.spawned # 0 =>
               children'[last'.spawned].path = tika_server_file.path
     /\ tika_server_file' # tika_server_file =>
          /\ tika_server_file.tag = "Remote"
          /\ tika_server_file' = File("Download", download_path)
          /\ last'.dl = "ok"]_vars

\* C16 witness: the second start_server of a client spawned a child from
\* the jar the first one downloaded, without a request.
C16_Witness ==
  /\ last.op = "start" /\ last.requests = 0 /\ last.spawned = 2
  /\ children[1].kind = "Download" /\ children[2].kind = "Download"
  /\ tika_server_file = File("Download", download_path)
  /\ jar_file.exists

\* C17: after a download that succeeded, tika-server.jar in the storage
\* directory holds the bytes of the response body, the count of the copy is
\* their number, and the location is the Download of that file.
C17_DownloadWritesBody ==
  /\ last.dl = "ok" =>
       /\ last.written = Len(RemoteBody)
       /\ tika_server_file = File("Download", download_path)
  /\ tika_server_file.kind = "Download" =>
       /\ tika_server_file.path = download_path
       /\ jar_file = FileOf(RemoteBody)

\* C17 witness: a client of version 1.19 has downloaded the three bytes of
\* that jar.
C17_Witness ==
  /\ last.dl = "ok" /\ last.written = 3
  /\ tika_version = "1.19"
  /\ jar_file = FileOf(<<80, 75, 5>>)
  /\ tika_server_file = File("Download", download_path)

\* the failures of the transport: of the request, or of a read of the body
TransportFailures == {"send_err", "read_err", "read_err_partial"}
\* the failures of the filesystem: creating the file, or writing to it
FilesystemFailures == {"create_err", "write_err", "write_err_partial"}

\* C18: a download that met a failure of the transport returns the ReqWest
\* error, one that met a failure of the filesystem returns the IO error;
\* either way one request was sent, the location is still Remote and
\* nothing was spawned.
C18_DownloadFailsOnce ==
  /\ last.dl \in TransportFailures => last.res = "ReqWest"
  /\ last.dl \in FilesystemFailures => last.res = "IO"
  /\ last.dl \notin {"none", "ok"} =>
       /\ last.requests = 1
       /\ tika_server_file.tag = "Remote"
       /\ last.spawned = 0
       /\ pc = "idle"
  /\ last.requests <= 1

\* C19: the scan accepts a line as the readiness signal exactly when the
\* line contains the startup banner, whatever precedes or follows it.
C19_BannerIsSubstringMatch ==
  [][(pc = "scan" /\ pipe.buf # <<>> /\ IoErr \notin Range(pipe.buf)
        /\ read_line) =>
       /\ last'.scan = "banner" <=>
            \E k \in 1..Len(pipe.buf) : carries_banner(pipe.buf[k])
       /\ last'.scan = "banner" => carries_banner(last'.item)]_vars

\* C20: a stop_server that returned Ok leaves no handle, and no child that
\* was signalled and not waited for.
C20_StopWaitsForExit ==
  (last.op = "stop" /\ last.res = "Ok") =>
    /\ ~server_handle.some
    /\ \A c \in 1..Len(children) : children[c].state # "killed"

\* C21: the child a start spawned was invoked by the tag of the server
\* file: the executable itself with no class path for PathExecutable, java
\* with -cp, the jar and the server class for EnvVarJar and Download; the
\* arguments end with --host, the ip, --port, the port of the address of
\* the mode.
C21_InvocationByLocation ==
  last.spawned # 0 =>
    LET cmd == children[last.spawned].cmd
        n == Len(cmd.args)
    IN  /\ tika_mode.tag = "ClientServer"
        /\ tika_server_file.tag = "File"
        /\ n >= 4
        /\ SubSeq(cmd.args, n - 3, n) =
             <<"--host", tika_mode.val.ip, "--port", ToString(tika_mode.val.port)>>
        /\ tika_server_file.kind = "PathExecutable" =>
             cmd.program = tika_server_file.path /\ n = 4
        /\ tika_server_file.kind \in {"EnvVarJar", "Download"} =>
             /\ cmd.program = JavaPath
             /\ n = 7
             /\ SubSeq(cmd.args, 1, 3) = <<"-cp", tika_server_file.path, ServerClass>>

\* C21 witness: the downloaded jar was started through java on port 80, the
\* address of a restart.
C21_Witness ==
  /\ last.spawned # 0 /\ last.op = "restart"
  /\ tika_server_file.kind = "Download"
  /\ children[last.spawned].cmd =
       [program |-> JavaPath,
        args |-> <<"-cp", download_path, ServerClass,
                   "--host", "127.0.0.1", "--port", "80">>]

\* C22: after a start that returned Ok the stored handle holds the stdout
\* and stderr pipes exactly when the verbosity is Silent, and with Verbose
\* the pipes were released only after the scan had seen the banner.
C22_StreamsReleasedAfterReadiness ==
  (last.op \in {"start", "restart"} /\ last.res = "Ok") =>
    /\ server_handle.some /\ server_handle.child = last.spawned
    /\ server_handle.stderr <=> server_verbosity = "Silent"
    /\ server_handle.stdout <=> server_verbosity = "Silent"
    /\ server_verbosity = "Verbose" => last.scan = "banner"

\* C23: a detect_language whose response had a body returns the Server
\* error when the body is empty and the body as the language otherwise; no
\* detect_language returns Ok with an empty language.
C23_NoEmptyLanguage ==
  reply.op = "detect_language" =>
    /\ reply.response = Response("body", "") => reply.result.res = "Server"
    /\ (reply.response.kind = "body" /\ reply.response.text # "") =>
         reply.result = Result("Ok", reply.response.text)
    /\ reply.result.res = "Ok" => reply.result.value # ""

\* C23 witness: a detect_language met an empty body and returned the error.
C23_Witness ==
  /\ reply.op = "detect_language"
  /\ reply.response = Response("body", "")
  /\ reply.result.res = "Server"

\* url `u` is addressed to endpoint `e`: it has the scheme, the host and
\* the port of e, and its path lies under the path of e
addressed_to(u, e) ==
  LET base == IF e.path # <<>> /\ e.path[Len(e.path)] = ""
                THEN SubSeq(e.path, 1, Len(e.path) - 1)
                ELSE e.path
  IN  /\ u.scheme = e.scheme /\ u.host = e.host /\ u.port = e.port
      /\ Len(base) <= Len(u.path)
      /\ SubSeq(u.path, 1, Len(base)) = base

\* the operations of a request whose url the client builds
PlainOps == ReqOps \ {"request"}

\* C24: no step of a request, sent or returned, with or without an error,
\* changes mode, endpoint, handle or server file, and every request in
\* flight that get_json, a translation or a detection sent is addressed to
\* the endpoint of the client.
C24_RequestsAreReadOnly ==
  [][/\ UNCHANGED <<tika_mode, server_endpoint, server_handle, tika_server_file>>
     /\ \A req \in BagToSet(inflight') :
          req.op \in PlainOps => addressed_to(req.url, server_endpoint)]_vars

\* C25: a builder constructor given a text that does not parse, or the
\* default with TIKA_SERVER_ENDPOINT set to one, returns the Url or Addr
\* error; there is no client, no child and no request.
C25_MalformedIsParseError ==
  malformed(last.builder.source) =>
    /\ last.res \in {"Url", "Addr"}
    /\ pc = "unbuilt"
    /\ children = <<>>
    /\ inflight = EmptyBag

\* C26: the client of a builder whose server file was set starts from that
\* server file.
C26_BuildKeepsServerFile ==
  (last.op = "build" /\ last.builder.file # NoLocation) =>
    tika_server_file = last.builder.file

\* C27: a restart_server that returns the error of its stop step leaves
\* mode and endpoint as they were, whatever address it was given, sends no
\* request and spawns no child.
C27_FailedStopEndsRestart ==
  [][(Callable /\ last'.op = "restart" /\ last'.res = "Server") =>
       /\ server_handle.some
       /\ UNCHANGED <<tika_mode, server_endpoint, server_handle, tika_server_file>>
       /\ Len(children') = Len(children)
       /\ last'.spawned = 0 /\ last'.requests = 0
       /\ pc' = "idle"]_vars

\* C27 witness: a restart_server failed at its stop step on a client that
\* holds the handle of a running child.
C27_Witness ==
  /\ last.op = "restart" /\ last.res = "Server"
  /\ server_handle.some
  /\ children[server_handle.child].state = "running"
  /\ children[server_handle.child].addr = tika_mode.val

\* C28: with a child that again and again writes a line carrying the banner
\* or exits, a start_server that is scanning eventually returns.
C28_ScanTerminates ==
  (pc = "scan") ~> (pc # "scan")

\* C29: no step taken by a client in ClientOnly mode, the mode only
\* construction gives, spawns a child or takes the client out of that mode.
C29_ClientOnlyNeverSpawns ==
  [][tika_mode.tag = "ClientOnly" =>
       /\ Len(children') = Len(children)
       /\ tika_mode'.tag = "ClientOnly"]_vars

\* C30: the url of a Remote server file is the download url of the version
\* of the client, the one download_server_jar requests.
C30_PlaceholderNamesVersion ==
  (HasClient /\ tika_server_file.tag = "Remote") =>
    tika_server_file.path = remote_server_jar(tika_version)
====
